---- MODULE Spec2Model ----
(***************************************************************************)
(* Post access layer (utils/posts.ts) and validation layer                *)
(* (utils/validation.ts) of the bookings application.                     *)
(*                                                                         *)
(* Strings are run-length encoded: a string is a sequence of runs          *)
(* [c |-> character, n |-> repetitions], so that a title of 101            *)
(* characters is one run and trim() and length are computed as String     *)
(* .prototype.trim and .length compute them.                               *)
(***************************************************************************)
EXTENDS Integers, Sequences, FiniteSets, TLC

VARIABLES store, nextId, now, writes, pending, resp, check

vars == <<store, nextId, now, writes, pending, resp, check>>

---------------------------------------------------------------------------
(* Bounds of the model                                                     *)

(* store calls that change the table (create, updateMany and deleteMany
   with a match) in one behaviour *)
MaxWrites == 3

(* spaces before and after the text of a value given to the validation
   layer *)
MaxPad == 1

---------------------------------------------------------------------------
(* Strings                                                                 *)

Whitespace == {" ", "\t", "\n"}

Run(ch, n) == <<[c |-> ch, n |-> n]>>

EmptyStr == <<>>

RECURSIVE Length(_)
Length(s) == IF s = <<>> THEN 0 ELSE Head(s).n + Length(Tail(s))

RECURSIVE TrimStart(_)
TrimStart(s) ==
    IF s = <<>> THEN s
    ELSE IF Head(s).c \in Whitespace THEN TrimStart(Tail(s)) ELSE s

RECURSIVE TrimEnd(_)
TrimEnd(s) ==
    IF s = <<>> THEN s
    ELSE IF s[Len(s)].c \in Whitespace THEN TrimEnd(SubSeq(s, 1, Len(s) - 1)) ELSE s

(* the string as it is *)
Untrimmed(s) == s

Trim(s) == TrimEnd(TrimStart(s))

---------------------------------------------------------------------------
(* Untyped values arriving from the transport                              *)

Undefined == [type |-> "undefined", str |-> EmptyStr]

Null == [type |-> "null", str |-> EmptyStr]

Number == [type |-> "number", str |-> EmptyStr]

Boolean == [type |-> "boolean", str |-> EmptyStr]

Object == [type |-> "object", str |-> EmptyStr]

StrVal(s) == [type |-> "string", str |-> s]

IsString(v) == v.type = "string"

(* absent, without the test for the empty string *)
IsAbsent(v) == v = Undefined \/ v = Null

IsMissing(v) == v = Undefined \/ v = Null \/ v = StrVal(EmptyStr)

---------------------------------------------------------------------------
(* Validation layer                                                        *)

MaxTitleLength == 100

MaxContentLength == 5000

Msg(text, n) == [text |-> text, n |-> n]

IsRequired == Msg("is required", 0)

MustBeString == Msg("must be a string", 0)

CannotBeEmpty == Msg("cannot be empty", 0)

AtLeast(n) == Msg("must be at least N characters long", n)

NotExceed(n) == Msg("must not exceed N characters", n)

ValidationError(field, message) == [field |-> field, message |-> message]

(* options.minLength / options.maxLength: {} when undefined, {n} when given *)
validateStringField(value, fieldName, options) ==
    IF options.required /\ IsMissing(value)
    THEN <<ValidationError(fieldName, IsRequired)>>
    ELSE IF IsMissing(value) THEN <<>>
    ELSE IF ~IsString(value) THEN <<ValidationError(fieldName, MustBeString)>>
    ELSE LET trimmedValue == Trim(value.str)
             tooShort == IF \E m \in options.minLength : Length(trimmedValue) < m
                         THEN <<ValidationError(fieldName,
                                  AtLeast(CHOOSE m \in options.minLength : TRUE))>>
                         ELSE <<>>
             tooLong == IF \E m \in options.maxLength : Length(trimmedValue) > m
                        THEN <<ValidationError(fieldName,
                                 NotExceed(CHOOSE m \in options.maxLength : TRUE))>>
                        ELSE <<>>
         IN tooShort \o tooLong

(* the title options with required left out *)
TitleOptionsNotRequired ==
    [required |-> FALSE, minLength |-> {}, maxLength |-> {MaxTitleLength}]

TitleOptions == [required |-> TRUE, minLength |-> {}, maxLength |-> {MaxTitleLength}]

(* the content options without the length limit *)
ContentOptionsWithoutLimit == [required |-> FALSE, minLength |-> {}, maxLength |-> {}]

(* the content options with required: true *)
ContentOptionsRequired ==
    [required |-> TRUE, minLength |-> {}, maxLength |-> {MaxContentLength}]

ContentOptions == [required |-> FALSE, minLength |-> {}, maxLength |-> {MaxContentLength}]

(* validatePostData checking the content before the title *)
validatePostDataContentFirst(data) ==
    validateStringField(data.content, "content", ContentOptions)
        \o validateStringField(data.title, "title", TitleOptions)

validatePostData(data) ==
    validateStringField(data.title, "title", TitleOptions)
        \o validateStringField(data.content, "content", ContentOptions)

(* the returned value with the fields as they arrived *)
SanitizePostDataUntrimmed(data) ==
    [title |-> IF IsString(data.title) THEN data.title.str ELSE EmptyStr,
     content |-> IF IsString(data.content) THEN data.content.str ELSE EmptyStr]

(* the value returned when validatePostData reports no error *)
SanitizePostData(data) ==
    [title |-> IF IsString(data.title) THEN Trim(data.title.str) ELSE EmptyStr,
     content |-> IF IsString(data.content) THEN Trim(data.content.str) ELSE EmptyStr]

validateId(id, fieldName) ==
    IF IsMissing(id) THEN <<ValidationError(fieldName, IsRequired)>>
    ELSE IF ~IsString(id) THEN <<ValidationError(fieldName, MustBeString)>>
    ELSE IF Length(Trim(id.str)) = 0 THEN <<ValidationError(fieldName, CannotBeEmpty)>>
    ELSE <<>>

(* the id returned as it arrived *)
SanitizeIdUntrimmed(id) == id.str

(* the value returned when validateId reports no error *)
SanitizeId(id) == Trim(id.str)

(* throw new ValidationException(errors) *)
Threw(errors) == [outcome |-> "ValidationException", errors |-> errors, value |-> <<>>]

(* return value *)
Returned(value) == [outcome |-> "return", errors |-> <<>>, value |-> <<value>>]

validateAndSanitizePostData(data) ==
    LET errors == validatePostData(data)
    IN IF Len(errors) > 0 THEN Threw(errors) ELSE Returned(SanitizePostData(data))

validateAndSanitizeId(id, fieldName) ==
    LET errors == validateId(id, fieldName)
    IN IF Len(errors) > 0 THEN Threw(errors) ELSE Returned(SanitizeId(id))

(* a call of a function of the validation layer and what it ended with *)
Check(fn, args, result) ==
    [fn |-> fn, args |-> args, outcome |-> result.outcome, errors |-> result.errors,
     value |-> result.value]

NoCheck == Check("none", <<>>, Returned(<<>>))

---------------------------------------------------------------------------
(* Record store: the table behind db.post, passed as posts                 *)

(* id String @id @default(cuid()): the k-th generated identifier *)
PostId(k) == Run("p", k)

Post(id, userId, title, content, createdAt, updatedAt) ==
    [id |-> id, userId |-> userId, title |-> title, content |-> content,
     createdAt |-> createdAt, updatedAt |-> updatedAt]

(* oldest first *)
IsSortedAsc(seq) ==
    \A i, j \in 1..Len(seq) : i < j => seq[i].createdAt <= seq[j].createdAt

IsSortedDesc(seq) ==
    \A i, j \in 1..Len(seq) : i < j => seq[i].createdAt >= seq[j].createdAt

(* every ordering of rows that orderBy: { createdAt: "desc" } allows *)
OrderByCreatedAtDesc(rows) ==
    {seq \in [1..Cardinality(rows) -> rows] :
        /\ \A i, j \in 1..Cardinality(rows) : i # j => seq[i] # seq[j]
        /\ IsSortedDesc(seq)}

(* db.post.findMany({ where: { userId }, orderBy: { createdAt: "desc" } }) *)
findMany(posts, userId) == OrderByCreatedAtDesc({p \in posts : p.userId = userId})

(* findFirst with the owner dropped from the filter *)
findFirstByIdAlone(posts, id, userId) == {p \in posts : p.id = id}

(* db.post.findFirst({ where: { id, userId } }): the rows that match *)
findFirst(posts, id, userId) == {p \in posts : p.id = id /\ p.userId = userId}

(* db.post.findUnique({ where: { id } }): the rows that match *)
findUnique(posts, id) == {p \in posts : p.id = id}

(* db.post.create({ data: { title, content, userId } }): the created row *)
create(title, content, userId) ==
    Post(PostId(nextId), userId, title, content, now, now)

(* updateMany with the owner dropped from the filter *)
updateManyWhereByIdAlone(posts, id, userId) == {p \in posts : p.id = id}

(* db.post.updateMany({ where: { id, userId }, data }): the rows that match *)
updateManyWhere(posts, id, userId) == {p \in posts : p.id = id /\ p.userId = userId}

(* updateMany creating the row when none matches, as an upsert does *)
updateManyCreatingRow(posts, id, userId, title, content) ==
    IF updateManyWhere(posts, id, userId) = {}
    THEN posts \cup {Post(id, userId, title, content, now, now)}
    ELSE {IF p \in updateManyWhere(posts, id, userId)
          THEN [p EXCEPT !.title = title, !.content = content, !.updatedAt = now]
          ELSE p : p \in posts}

(* db.post.updateMany({ where: { id, userId }, data: { title, content } }) *)
updateMany(posts, id, userId, title, content) ==
    {IF p \in updateManyWhere(posts, id, userId)
     THEN [p EXCEPT !.title = title, !.content = content, !.updatedAt = now]
     ELSE p : p \in posts}

(* db.post.deleteMany({ where: { id, userId } }): the rows that match *)
deleteManyWhere(posts, id, userId) == {p \in posts : p.id = id /\ p.userId = userId}

(* deleteMany that leaves the matched rows in the table *)
deleteManyKeepingRows(posts, id, userId) == posts

(* deleteMany with the id dropped from the filter *)
deleteManyByOwnerAlone(posts, id, userId) == {p \in posts : p.userId # userId}

(* db.post.deleteMany({ where: { id, userId } }) *)
deleteMany(posts, id, userId) == posts \ deleteManyWhere(posts, id, userId)

---------------------------------------------------------------------------
(* Callers, requests and responses                                         *)

Users == {"A", "B"}

(* getAuth(webRequest).userId when the request carries no session *)
NoUser == "<null>"

(* !userId *)
NoIdentity(userId) == userId = NoUser \/ userId = ""

(* a field the payload does not carry *)
NoField == ""

NoData == [title |-> Undefined, content |-> Undefined, userId |-> NoField]

Payload(title, content) == [title |-> title, content |-> content, userId |-> NoField]

Request(op, webRequest, userId, id, data) ==
    [op |-> op, webRequest |-> webRequest, userId |-> userId, id |-> id, data |-> data]

(* a call db.post.fn({ where, data }); an argument that is not given is
   the record without fields *)
NoArgs == <<>>

StoreCall(fn, where, data) == [fn |-> fn, where |-> where, data |-> data]

(* what a handler ends with, the table it leaves and the store calls it
   issued *)
Result(outcome, errors, value, posts) ==
    [outcome |-> outcome, errors |-> errors, value |-> value, posts |-> posts,
     calls |-> <<>>]

(* the results of a handler that reached its store call *)
Calling(call, results) == {[r EXCEPT !.calls = <<call>>] : r \in results}

Response(req, result) ==
    [req |-> req, outcome |-> result.outcome, errors |-> result.errors,
     value |-> result.value, calls |-> result.calls]

Idle ==
    [req |-> Request("none", FALSE, NoUser, Undefined, NoData), outcome |-> "none",
     errors |-> <<>>, value |-> <<>>, calls |-> <<>>]

(* SERVER_ERRORS *)
NO_REQUEST == "No request found"

UNAUTHORIZED == "Unauthorized"

VALIDATION_FAILED == "Validation failed"

NOT_FOUND == "Resource not found"

FORBIDDEN == "Access denied"

---------------------------------------------------------------------------
(* Post access layer: each handler as the results it can end with, given   *)
(* the table, the request, the resolved identity and the transport input   *)

fetchPostsResult(posts, webRequest, userId) ==
    IF ~webRequest THEN {Result(NO_REQUEST, <<>>, <<>>, posts)}
    ELSE IF NoIdentity(userId) THEN {Result(UNAUTHORIZED, <<>>, <<>>, posts)}
    ELSE Calling(StoreCall("findMany", [userId |-> userId], NoArgs),
            {Result("posts", <<>>, found, posts) : found \in findMany(posts, userId)})

(* fetchPost reading by id alone and checking the owner afterwards *)
fetchPostResultCheckingOwnerAfterwards(posts, webRequest, userId, data) ==
    IF ~webRequest THEN {Result(NO_REQUEST, <<>>, <<>>, posts)}
    ELSE IF NoIdentity(userId) THEN {Result(UNAUTHORIZED, <<>>, <<>>, posts)}
    ELSE IF validateId(data, "postId") # <<>>
    THEN {Result(VALIDATION_FAILED, validateId(data, "postId"), <<>>, posts)}
    ELSE LET validatedId == SanitizeId(data)
             post == findUnique(posts, validatedId)
         IN IF post = {} THEN {Result(NOT_FOUND, <<>>, <<>>, posts)}
            ELSE {IF p.userId # userId THEN Result(FORBIDDEN, <<>>, <<>>, posts)
                  ELSE Result("post", <<>>, <<p>>, posts) : p \in post}

fetchPostResult(posts, webRequest, userId, data) ==
    IF ~webRequest THEN {Result(NO_REQUEST, <<>>, <<>>, posts)}
    ELSE IF NoIdentity(userId) THEN {Result(UNAUTHORIZED, <<>>, <<>>, posts)}
    ELSE IF validateId(data, "postId") # <<>>
    THEN {Result(VALIDATION_FAILED, validateId(data, "postId"), <<>>, posts)}
    ELSE LET validatedId == SanitizeId(data)
             post == findFirst(posts, validatedId, userId)
         IN Calling(StoreCall("findFirst", [id |-> validatedId, userId |-> userId],
                              NoArgs),
               IF post = {} THEN {Result(NOT_FOUND, <<>>, <<>>, posts)}
               ELSE {Result("post", <<>>, <<p>>, posts) : p \in post})

(* createPost letting the payload's fields override the resolved identity *)
createPostResultPayloadOverIdentity(posts, webRequest, userId, data) ==
    IF ~webRequest THEN {Result(NO_REQUEST, <<>>, <<>>, posts)}
    ELSE IF NoIdentity(userId) THEN {Result(UNAUTHORIZED, <<>>, <<>>, posts)}
    ELSE IF validatePostData(data) # <<>>
    THEN {Result(VALIDATION_FAILED, validatePostData(data), <<>>, posts)}
    ELSE LET validatedData == SanitizePostData(data)
             owner == IF data.userId # NoField THEN data.userId ELSE userId
             post == create(validatedData.title, validatedData.content, owner)
         IN {Result("post", <<>>, <<post>>, posts \cup {post})}

(* createPost validating its input before it resolves the identity *)
createPostResultValidatingFirst(posts, webRequest, userId, data) ==
    IF ~webRequest THEN {Result(NO_REQUEST, <<>>, <<>>, posts)}
    ELSE IF validatePostData(data) # <<>>
    THEN {Result(VALIDATION_FAILED, validatePostData(data), <<>>, posts)}
    ELSE IF NoIdentity(userId) THEN {Result(UNAUTHORIZED, <<>>, <<>>, posts)}
    ELSE LET validatedData == SanitizePostData(data)
             post == create(validatedData.title, validatedData.content, userId)
         IN {Result("post", <<>>, <<post>>, posts \cup {post})}

createPostResult(posts, webRequest, userId, data) ==
    IF ~webRequest THEN {Result(NO_REQUEST, <<>>, <<>>, posts)}
    ELSE IF NoIdentity(userId) THEN {Result(UNAUTHORIZED, <<>>, <<>>, posts)}
    ELSE IF validatePostData(data) # <<>>
    THEN {Result(VALIDATION_FAILED, validatePostData(data), <<>>, posts)}
    ELSE LET validatedData == SanitizePostData(data)
             post == create(validatedData.title, validatedData.content, userId)
         IN Calling(StoreCall("create", NoArgs,
                              [title |-> validatedData.title,
                               content |-> validatedData.content,
                               userId |-> userId]),
               {Result("post", <<>>, <<post>>, posts \cup {post})})

(* updatePost issuing its store call before it validates its input *)
updatePostResultWritingBeforeValidation(posts, webRequest, userId, id, data) ==
    IF ~webRequest THEN {Result(NO_REQUEST, <<>>, <<>>, posts)}
    ELSE IF NoIdentity(userId) THEN {Result(UNAUTHORIZED, <<>>, <<>>, posts)}
    ELSE LET validatedPostData == SanitizePostData(data)
             validatedId == Trim(id.str)
             count == Cardinality(updateManyWhere(posts, validatedId, userId))
             updated == updateMany(posts, validatedId, userId,
                            validatedPostData.title, validatedPostData.content)
         IN IF validatePostData(data) # <<>>
            THEN {Result(VALIDATION_FAILED, validatePostData(data), <<>>, updated)}
            ELSE IF validateId(id, "postId") # <<>>
            THEN {Result(VALIDATION_FAILED, validateId(id, "postId"), <<>>, updated)}
            ELSE IF count = 0 THEN {Result(NOT_FOUND, <<>>, <<>>, updated)}
            ELSE {Result("pending", <<>>, <<>>, updated)}

(* updatePost resolving the identity before it checks the request *)
updatePostResultIdentityBeforeRequest(posts, webRequest, userId, id, data) ==
    IF NoIdentity(userId) THEN {Result(UNAUTHORIZED, <<>>, <<>>, posts)}
    ELSE IF ~webRequest THEN {Result(NO_REQUEST, <<>>, <<>>, posts)}
    ELSE IF validatePostData(data) # <<>>
    THEN {Result(VALIDATION_FAILED, validatePostData(data), <<>>, posts)}
    ELSE IF validateId(id, "postId") # <<>>
    THEN {Result(VALIDATION_FAILED, validateId(id, "postId"), <<>>, posts)}
    ELSE LET validatedPostData == SanitizePostData(data)
             validatedId == SanitizeId(id)
             count == Cardinality(updateManyWhere(posts, validatedId, userId))
             updated == updateMany(posts, validatedId, userId,
                            validatedPostData.title, validatedPostData.content)
         IN Calling(StoreCall("updateMany", [id |-> validatedId, userId |-> userId],
                              [title |-> validatedPostData.title,
                               content |-> validatedPostData.content]),
               IF count = 0 THEN {Result(NOT_FOUND, <<>>, <<>>, updated)}
               ELSE {Result("pending", <<>>, <<>>, updated)})

(* updatePost validating the id before the title and the content *)
updatePostResultValidatingIdFirst(posts, webRequest, userId, id, data) ==
    IF ~webRequest THEN {Result(NO_REQUEST, <<>>, <<>>, posts)}
    ELSE IF NoIdentity(userId) THEN {Result(UNAUTHORIZED, <<>>, <<>>, posts)}
    ELSE IF validateId(id, "postId") # <<>>
    THEN {Result(VALIDATION_FAILED, validateId(id, "postId"), <<>>, posts)}
    ELSE IF validatePostData(data) # <<>>
    THEN {Result(VALIDATION_FAILED, validatePostData(data), <<>>, posts)}
    ELSE LET validatedPostData == SanitizePostData(data)
             validatedId == SanitizeId(id)
             count == Cardinality(updateManyWhere(posts, validatedId, userId))
             updated == updateMany(posts, validatedId, userId,
                            validatedPostData.title, validatedPostData.content)
         IN Calling(StoreCall("updateMany", [id |-> validatedId, userId |-> userId],
                              [title |-> validatedPostData.title,
                               content |-> validatedPostData.content]),
               IF count = 0 THEN {Result(NOT_FOUND, <<>>, <<>>, updated)}
               ELSE {Result("pending", <<>>, <<>>, updated)})

(* updatePost up to and including the check of post.count; "pending" is the
   handler awaiting its re-read *)
updatePostResult(posts, webRequest, userId, id, data) ==
    IF ~webRequest THEN {Result(NO_REQUEST, <<>>, <<>>, posts)}
    ELSE IF NoIdentity(userId) THEN {Result(UNAUTHORIZED, <<>>, <<>>, posts)}
    ELSE IF validatePostData(data) # <<>>
    THEN {Result(VALIDATION_FAILED, validatePostData(data), <<>>, posts)}
    ELSE IF validateId(id, "postId") # <<>>
    THEN {Result(VALIDATION_FAILED, validateId(id, "postId"), <<>>, posts)}
    ELSE LET validatedPostData == SanitizePostData(data)
             validatedId == SanitizeId(id)
             count == Cardinality(updateManyWhere(posts, validatedId, userId))
             updated == updateMany(posts, validatedId, userId,
                            validatedPostData.title, validatedPostData.content)
         IN Calling(StoreCall("updateMany", [id |-> validatedId, userId |-> userId],
                              [title |-> validatedPostData.title,
                               content |-> validatedPostData.content]),
               IF count = 0 THEN {Result(NOT_FOUND, <<>>, <<>>, updated)}
               ELSE {Result("pending", <<>>, <<>>, updated)})

(* updatePost from the re-read by id to the return; an empty value is null *)
updatePostReturnResult(posts, id) ==
    LET validatedId == SanitizeId(id)
        post == findUnique(posts, validatedId)
    IN Calling(StoreCall("findUnique", [id |-> validatedId], NoArgs),
          IF post = {} THEN {Result("null", <<>>, <<>>, posts)}
          ELSE {Result("post", <<>>, <<p>>, posts) : p \in post})

(* deletePost answering success without looking at result.count *)
deletePostResultIgnoringCount(posts, webRequest, userId, data) ==
    IF ~webRequest THEN {Result(NO_REQUEST, <<>>, <<>>, posts)}
    ELSE IF NoIdentity(userId) THEN {Result(UNAUTHORIZED, <<>>, <<>>, posts)}
    ELSE IF validateId(data, "postId") # <<>>
    THEN {Result(VALIDATION_FAILED, validateId(data, "postId"), <<>>, posts)}
    ELSE LET validatedId == SanitizeId(data)
             remaining == deleteMany(posts, validatedId, userId)
         IN {Result("success", <<>>, <<>>, remaining)}

deletePostResult(posts, webRequest, userId, data) ==
    IF ~webRequest THEN {Result(NO_REQUEST, <<>>, <<>>, posts)}
    ELSE IF NoIdentity(userId) THEN {Result(UNAUTHORIZED, <<>>, <<>>, posts)}
    ELSE IF validateId(data, "postId") # <<>>
    THEN {Result(VALIDATION_FAILED, validateId(data, "postId"), <<>>, posts)}
    ELSE LET validatedId == SanitizeId(data)
             count == Cardinality(deleteManyWhere(posts, validatedId, userId))
             remaining == deleteMany(posts, validatedId, userId)
         IN Calling(StoreCall("deleteMany", [id |-> validatedId, userId |-> userId],
                              NoArgs),
               IF count = 0 THEN {Result(NOT_FOUND, <<>>, <<>>, remaining)}
               ELSE {Result("success", <<>>, <<>>, remaining)})

---------------------------------------------------------------------------
(* Post access layer of src/utils/posts.ts: the handlers that pass their   *)
(* input to the store as it arrives. Their input has the type the          *)
(* validator declares: a string postId, string title and content           *)

fetchPostsUnvalidatedResult(posts, webRequest, userId) ==
    IF ~webRequest THEN {Result(NO_REQUEST, <<>>, <<>>, posts)}
    ELSE IF NoIdentity(userId) THEN {Result(UNAUTHORIZED, <<>>, <<>>, posts)}
    ELSE Calling(StoreCall("findMany", [userId |-> userId], NoArgs),
            {Result("posts", <<>>, found, posts) : found \in findMany(posts, userId)})

fetchPostUnvalidatedResult(posts, webRequest, userId, data) ==
    IF ~webRequest THEN {Result(NO_REQUEST, <<>>, <<>>, posts)}
    ELSE IF NoIdentity(userId) THEN {Result(UNAUTHORIZED, <<>>, <<>>, posts)}
    ELSE LET post == findFirst(posts, data.str, userId)
         IN Calling(StoreCall("findFirst", [id |-> data.str, userId |-> userId],
                              NoArgs),
               IF post = {} THEN {Result(NOT_FOUND, <<>>, <<>>, posts)}
               ELSE {Result("post", <<>>, <<p>>, posts) : p \in post})

(* data: { ...data, userId }: userId comes after the spread and replaces a
   userId of the payload *)
createPostUnvalidatedResult(posts, webRequest, userId, data) ==
    IF ~webRequest THEN {Result(NO_REQUEST, <<>>, <<>>, posts)}
    ELSE IF NoIdentity(userId) THEN {Result(UNAUTHORIZED, <<>>, <<>>, posts)}
    ELSE LET row == [[title |-> data.title.str, content |-> data.content.str,
                      userId |-> data.userId] EXCEPT !.userId = userId]
             post == create(row.title, row.content, row.userId)
         IN Calling(StoreCall("create", NoArgs, row),
               {Result("post", <<>>, <<post>>, posts \cup {post})})

(* updatePost up to and including the check of post.count *)
updatePostUnvalidatedResult(posts, webRequest, userId, id, data) ==
    IF ~webRequest THEN {Result(NO_REQUEST, <<>>, <<>>, posts)}
    ELSE IF NoIdentity(userId) THEN {Result(UNAUTHORIZED, <<>>, <<>>, posts)}
    ELSE LET count == Cardinality(updateManyWhere(posts, id.str, userId))
             updated == updateMany(posts, id.str, userId, data.title.str,
                                   data.content.str)
         IN Calling(StoreCall("updateMany", [id |-> id.str, userId |-> userId],
                              [title |-> data.title.str,
                               content |-> data.content.str]),
               IF count = 0 THEN {Result(NOT_FOUND, <<>>, <<>>, updated)}
               ELSE {Result("pending", <<>>, <<>>, updated)})

(* updatePost from the re-read by id to the return *)
updatePostUnvalidatedReturnResult(posts, id) ==
    LET post == findUnique(posts, id.str)
    IN Calling(StoreCall("findUnique", [id |-> id.str], NoArgs),
          IF post = {} THEN {Result("null", <<>>, <<>>, posts)}
          ELSE {Result("post", <<>>, <<p>>, posts) : p \in post})

deletePostUnvalidatedResult(posts, webRequest, userId, data) ==
    IF ~webRequest THEN {Result(NO_REQUEST, <<>>, <<>>, posts)}
    ELSE IF NoIdentity(userId) THEN {Result(UNAUTHORIZED, <<>>, <<>>, posts)}
    ELSE LET count == Cardinality(deleteManyWhere(posts, data.str, userId))
             remaining == deleteMany(posts, data.str, userId)
         IN Calling(StoreCall("deleteMany", [id |-> data.str, userId |-> userId],
                              NoArgs),
               IF count = 0 THEN {Result(NOT_FOUND, <<>>, <<>>, remaining)}
               ELSE {Result("success", <<>>, <<>>, remaining)})

---------------------------------------------------------------------------
(* Inputs                                                                  *)

Padded(s) == Run(" ", 1) \o s \o Run(" ", 1)

Blank == Run(" ", 2)

(* no id, the first identifier with spaces around it, the other identifiers
   generated so far and the one generated next *)
IdInputs ==
    {Undefined, StrVal(Padded(PostId(1)))} \cup {StrVal(PostId(k)) : k \in 2..nextId}

(* title and content at their limits once trimmed, longer before *)
WellFormed ==
    Payload(StrVal(Padded(Run("a", MaxTitleLength))),
            StrVal(Padded(Run("c", MaxContentLength))))

BlankTitle == Payload(StrVal(Blank), Undefined)

EmptyTitle == Payload(StrVal(EmptyStr), StrVal(Run("n", 1)))

LongContent ==
    Payload(StrVal(Padded(Run("a", 1))), StrVal(Run("c", MaxContentLength + 1)))

UpdatePayloads == {WellFormed, BlankTitle, EmptyTitle, LongContent}

(* a payload may carry fields the handler does not ask for, such as userId *)
CreatePayloads == UpdatePayloads \cup {[WellFormed EXCEPT !.userId = "A"]}

(* getWebRequest() and getAuth(webRequest).userId as one request sees them *)
Sessions == {<<FALSE, NoUser>>, <<TRUE, NoUser>>} \cup {<<TRUE, u>> : u \in Users}

(* a handler that fails before it validates never reads its input: one
   well-formed and one malformed input stand for all of them *)
IdsOf(s) ==
    IF NoIdentity(s[2]) THEN {Undefined, StrVal(Padded(PostId(1)))} ELSE IdInputs

PayloadsOf(s, payloads) ==
    IF NoIdentity(s[2]) THEN {WellFormed, EmptyTitle} ELSE payloads

(* string ids: the first identifier with spaces around it, the identifiers
   generated so far and the one generated next *)
StringIdInputs ==
    {StrVal(Padded(PostId(1)))} \cup {StrVal(PostId(k)) : k \in 1..nextId}

StringIdsOf(s) ==
    IF NoIdentity(s[2]) THEN {StrVal(Padded(PostId(1)))} ELSE StringIdInputs

(* payloads with a string title and a string content *)
StringPayloads == {d \in UpdatePayloads : IsString(d.title) /\ IsString(d.content)}

StringPayloadsOf(s, payloads) ==
    IF NoIdentity(s[2]) THEN {EmptyTitle} ELSE payloads

---------------------------------------------------------------------------
(* The program: requests are served one store call at a time, and each    *)
(* response is delivered before the next store call is served             *)

Init ==
    /\ store = {}
    /\ nextId = 1
    /\ now = 0
    /\ writes = 0
    /\ pending = {}
    /\ resp = Idle
    /\ check = NoCheck

(* the previous response has left: the next store call may be served *)
Ready == resp = Idle

(* the store call of the handler changed the table *)
Wrote(r) == r.outcome \in {"post", "pending", "success"}

fetchPosts(webRequest, userId) ==
    LET req == Request("fetchPosts", webRequest, userId, Undefined, NoData)
    IN /\ Ready
       /\ \E r \in fetchPostsResult(store, webRequest, userId) :
             /\ resp' = Response(req, r)
             /\ UNCHANGED <<check, store, nextId, now, writes, pending>>

fetchPost(webRequest, userId, data) ==
    LET req == Request("fetchPost", webRequest, userId, data, NoData)
    IN /\ Ready
       /\ \E r \in fetchPostResult(store, webRequest, userId, data) :
             /\ resp' = Response(req, r)
             /\ UNCHANGED <<check, store, nextId, now, writes, pending>>

createPost(webRequest, userId, data) ==
    LET req == Request("createPost", webRequest, userId, Undefined, data)
    IN /\ Ready
       /\ \E r \in createPostResult(store, webRequest, userId, data) :
             /\ Wrote(r) => writes < MaxWrites
             /\ resp' = Response(req, r)
             /\ store' = r.posts
             /\ nextId' = IF Wrote(r) THEN nextId + 1 ELSE nextId
             /\ writes' = IF Wrote(r) THEN writes + 1 ELSE writes
             /\ UNCHANGED <<check, now, pending>>

updatePost(webRequest, userId, id, data) ==
    LET req == Request("updatePost", webRequest, userId, id, data)
    IN /\ Ready
       /\ \E r \in updatePostResult(store, webRequest, userId, id, data) :
             /\ Wrote(r) => writes < MaxWrites
             /\ resp' = Response(req, r)
             /\ store' = r.posts
             /\ pending' = IF Wrote(r) THEN pending \cup {req} ELSE pending
             /\ writes' = IF Wrote(r) THEN writes + 1 ELSE writes
             /\ UNCHANGED <<check, nextId, now>>

updatePostReturn(req) ==
    /\ Ready
    /\ req \in pending
    /\ \E r \in updatePostReturnResult(store, req.id) :
          /\ resp' = Response(req, r)
          /\ pending' = pending \ {req}
          /\ UNCHANGED <<check, store, nextId, now, writes>>

deletePost(webRequest, userId, data) ==
    LET req == Request("deletePost", webRequest, userId, data, NoData)
    IN /\ Ready
       /\ \E r \in deletePostResult(store, webRequest, userId, data) :
             /\ Wrote(r) => writes < MaxWrites
             /\ resp' = Response(req, r)
             /\ store' = r.posts
             /\ writes' = IF Wrote(r) THEN writes + 1 ELSE writes
             /\ UNCHANGED <<check, nextId, now, pending>>

(* time passes between two writes: now() is read by create and updateMany
   only, so the clock is followed from one write to the next *)
Tick ==
    /\ Ready
    /\ now < writes
    /\ writes < MaxWrites
    /\ now' = now + 1
    /\ UNCHANGED <<check, store, nextId, writes, pending, resp>>

(* the response leaves for the caller *)
Deliver ==
    /\ resp # Idle
    /\ resp' = Idle
    /\ UNCHANGED <<check, store, nextId, now, writes, pending>>

Next ==
    \/ \E s \in Sessions : fetchPosts(s[1], s[2])
    \/ \E s \in Sessions : \E i \in IdsOf(s) : fetchPost(s[1], s[2], i)
    \/ \E s \in Sessions : \E d \in PayloadsOf(s, CreatePayloads) :
          createPost(s[1], s[2], d)
    \/ \E s \in Sessions : \E i \in IdsOf(s), d \in PayloadsOf(s, UpdatePayloads) :
          updatePost(s[1], s[2], i, d)
    \/ \E r \in pending : updatePostReturn(r)
    \/ \E s \in Sessions : \E i \in IdsOf(s) : deletePost(s[1], s[2], i)
    \/ Tick
    \/ Deliver

Spec == Init /\ [][Next]_vars

---------------------------------------------------------------------------
(* The program with the handlers of src/utils/posts.ts                     *)

fetchPostsUnvalidated(webRequest, userId) ==
    LET req == Request("fetchPosts", webRequest, userId, Undefined, NoData)
    IN /\ Ready
       /\ \E r \in fetchPostsUnvalidatedResult(store, webRequest, userId) :
             /\ resp' = Response(req, r)
             /\ UNCHANGED <<check, store, nextId, now, writes, pending>>

fetchPostUnvalidated(webRequest, userId, data) ==
    LET req == Request("fetchPost", webRequest, userId, data, NoData)
    IN /\ Ready
       /\ \E r \in fetchPostUnvalidatedResult(store, webRequest, userId, data) :
             /\ resp' = Response(req, r)
             /\ UNCHANGED <<check, store, nextId, now, writes, pending>>

createPostUnvalidated(webRequest, userId, data) ==
    LET req == Request("createPost", webRequest, userId, Undefined, data)
    IN /\ Ready
       /\ \E r \in createPostUnvalidatedResult(store, webRequest, userId, data) :
             /\ Wrote(r) => writes < MaxWrites
             /\ resp' = Response(req, r)
             /\ store' = r.posts
             /\ nextId' = IF Wrote(r) THEN nextId + 1 ELSE nextId
             /\ writes' = IF Wrote(r) THEN writes + 1 ELSE writes
             /\ UNCHANGED <<check, now, pending>>

updatePostUnvalidated(webRequest, userId, id, data) ==
    LET req == Request("updatePost", webRequest, userId, id, data)
    IN /\ Ready
       /\ \E r \in updatePostUnvalidatedResult(store, webRequest, userId, id, data) :
             /\ Wrote(r) => writes < MaxWrites
             /\ resp' = Response(req, r)
             /\ store' = r.posts
             /\ pending' = IF Wrote(r) THEN pending \cup {req} ELSE pending
             /\ writes' = IF Wrote(r) THEN writes + 1 ELSE writes
             /\ UNCHANGED <<check, nextId, now>>

updatePostUnvalidatedReturn(req) ==
    /\ Ready
    /\ req \in pending
    /\ \E r \in updatePostUnvalidatedReturnResult(store, req.id) :
          /\ resp' = Response(req, r)
          /\ pending' = pending \ {req}
          /\ UNCHANGED <<check, store, nextId, now, writes>>

deletePostUnvalidated(webRequest, userId, data) ==
    LET req == Request("deletePost", webRequest, userId, data, NoData)
    IN /\ Ready
       /\ \E r \in deletePostUnvalidatedResult(store, webRequest, userId, data) :
             /\ Wrote(r) => writes < MaxWrites
             /\ resp' = Response(req, r)
             /\ store' = r.posts
             /\ writes' = IF Wrote(r) THEN writes + 1 ELSE writes
             /\ UNCHANGED <<check, nextId, now, pending>>

NextUnvalidated ==
    \/ \E s \in Sessions : fetchPostsUnvalidated(s[1], s[2])
    \/ \E s \in Sessions : \E i \in StringIdsOf(s) :
          fetchPostUnvalidated(s[1], s[2], i)
    \/ \E s \in Sessions :
          \E d \in StringPayloadsOf(s, StringPayloads
                                         \cup {[WellFormed EXCEPT !.userId = "A"]}) :
             createPostUnvalidated(s[1], s[2], d)
    \/ \E s \in Sessions :
          \E i \in StringIdsOf(s), d \in StringPayloadsOf(s, StringPayloads) :
             updatePostUnvalidated(s[1], s[2], i, d)
    \/ \E r \in pending : updatePostUnvalidatedReturn(r)
    \/ \E s \in Sessions : \E i \in StringIdsOf(s) :
          deletePostUnvalidated(s[1], s[2], i)
    \/ Tick
    \/ Deliver

SpecUnvalidated == Init /\ [][NextUnvalidated]_vars

-------------------------------------------------------------------------------------------------------------------------------------------------
(* The validation layer on its own: each function called with every value  *)
(* of Values, and what it ended with                                       *)

Spaces(n) == IF n = 0 THEN EmptyStr ELSE Run(" ", n)

(* texts without a space at either end: at, just below and just above the
   limits, one of them with a space inside *)
Bodies ==
    {Run("a", n) : n \in {1, MaxTitleLength, MaxTitleLength + 1,
                          MaxContentLength, MaxContentLength + 1}}
        \cup {Run("a", 1) \o Run(" ", 1) \o Run("a", MaxTitleLength - 2)}

Strings ==
    {Spaces(l) \o b \o Spaces(r) : l \in 0..MaxPad, r \in 0..MaxPad, b \in Bodies}
        \cup {Spaces(n) : n \in 0..MaxPad}

Values == {Undefined, Null, Number, Boolean, Object} \cup {StrVal(s) : s \in Strings}

(* what validatePostData and validateAndSanitizePostData are called with:
   an object with title and content, or no object *)
DataInputs == {Payload(t, c) : t \in Values, c \in Values} \cup {Undefined, Null, Number}

(* reading data.title of undefined or null raises a TypeError *)
IsNullish(data) == data = Undefined \/ data = Null

TypeError == [outcome |-> "TypeError", errors |-> <<>>, value |-> <<>>]

(* a value that is no object of title and content reads undefined for both *)
HasFields(data) == "title" \in DOMAIN data

Fields(data) == IF HasFields(data) THEN data ELSE NoData

FieldNames == {"title", "content", "postId"}

Options ==
    [required : BOOLEAN,
     minLength : {{}, {1}, {MaxTitleLength + 1}},
     maxLength : {{}, {MaxTitleLength}, {MaxContentLength}}]

handlerVars == <<store, nextId, now, writes, pending, resp>>

validateStringFieldCall(value, fieldName, options) ==
    /\ check = NoCheck
    /\ check' = Check("validateStringField",
                      [value |-> value, fieldName |-> fieldName, options |-> options],
                      [outcome |-> "return",
                       errors |-> validateStringField(value, fieldName, options),
                       value |-> <<>>])
    /\ UNCHANGED handlerVars

validatePostDataCall(data) ==
    /\ check = NoCheck
    /\ check' = Check("validatePostData", [data |-> data],
                      IF IsNullish(data) THEN TypeError
                      ELSE [outcome |-> "return",
                            errors |-> validatePostData(Fields(data)),
                            value |-> <<>>])
    /\ UNCHANGED handlerVars

validateAndSanitizePostDataCall(data) ==
    /\ check = NoCheck
    /\ check' = Check("validateAndSanitizePostData", [data |-> data],
                      IF IsNullish(data) THEN TypeError
                      ELSE validateAndSanitizePostData(Fields(data)))
    /\ UNCHANGED handlerVars

validateIdCall(id, fieldName) ==
    /\ check = NoCheck
    /\ check' = Check("validateId", [id |-> id, fieldName |-> fieldName],
                      [outcome |-> "return", errors |-> validateId(id, fieldName),
                       value |-> <<>>])
    /\ UNCHANGED handlerVars

validateAndSanitizeIdCall(id, fieldName) ==
    /\ check = NoCheck
    /\ check' = Check("validateAndSanitizeId", [id |-> id, fieldName |-> fieldName],
                      validateAndSanitizeId(id, fieldName))
    /\ UNCHANGED handlerVars

(* the call is over *)
CheckReturns ==
    /\ check # NoCheck
    /\ check' = NoCheck
    /\ UNCHANGED handlerVars

NextValidation ==
    \/ \E v \in Values, f \in FieldNames, o \in Options : validateStringFieldCall(v, f, o)
    \/ \E d \in DataInputs : validatePostDataCall(d)
    \/ \E d \in DataInputs : validateAndSanitizePostDataCall(d)
    \/ \E v \in Values, f \in FieldNames : validateIdCall(v, f)
    \/ \E v \in Values, f \in FieldNames : validateAndSanitizeIdCall(v, f)
    \/ CheckReturns

SpecValidation == Init /\ [][NextValidation]_vars

---------------------------------------------------------------------------
(* Reading a response r                                                    *)

(* the request passed the request check and the identity check *)
Authenticated(r) == r.req.webRequest /\ ~NoIdentity(r.req.userId)

IdIsValid(r) == validateId(r.req.id, "postId") = <<>>

DataIsValid(r) == validatePostData(r.req.data) = <<>>

(* the id of the request as the handler sanitizes it, where it is valid *)
RequestedId(r) == SanitizeId(r.req.id)

OwnedBy(posts, userId, id) == {p \in posts : p.id = id /\ p.userId = userId}

OwnedByAnother(posts, userId, id) == {p \in posts : p.id = id /\ p.userId # userId}

(* this step serves a store call of operation op and resp' is its response *)
Serves(ops) == resp = Idle /\ resp' # Idle /\ resp'.req.op \in ops

---------------------------------------------------------------------------
(* C1: fetchPost answers with a Post only when the store holds a Post with *)
(* the sanitized id and the caller as owner, and that Post is the answer;  *)
(* when the Post with that id belongs to another caller the answer is      *)
(* NOT_FOUND and carries no value.                                         *)
C1_FetchPostScopedToOwner ==
    resp.req.op = "fetchPost" =>
        /\ resp.outcome = "post" =>
              /\ Authenticated(resp) /\ IdIsValid(resp)
              /\ \E p \in OwnedBy(store, resp.req.userId, RequestedId(resp)) :
                    resp.value = <<p>>
        /\ (Authenticated(resp) /\ IdIsValid(resp)
                /\ OwnedByAnother(store, resp.req.userId, RequestedId(resp)) # {}) =>
              resp.outcome = NOT_FOUND /\ resp.value = <<>>

C1_Witness ==
    /\ resp.req.op = "fetchPost" /\ Authenticated(resp) /\ IdIsValid(resp)
    /\ OwnedByAnother(store, resp.req.userId, RequestedId(resp)) # {}
    /\ resp.outcome = NOT_FOUND

(* C2: updatePost and deletePost called with the id of a Post that another *)
(* caller owns leave that Post in the store as it was and never answer     *)
(* with data; the answer is NOT_FOUND whenever the input passes validation *)
(* (a malformed title or content fails validation first).                  *)
C2_OthersPostUntouched ==
    [][\A p \in store :
          (/\ Serves({"updatePost", "deletePost"})
           /\ Authenticated(resp') /\ IdIsValid(resp')
           /\ p \in OwnedByAnother(store, resp'.req.userId, RequestedId(resp')))
          => /\ p \in store'
             /\ resp'.outcome \in {NOT_FOUND, VALIDATION_FAILED}
             /\ resp'.value = <<>>
             /\ (resp'.req.op = "deletePost" \/ DataIsValid(resp'))
                    => resp'.outcome = NOT_FOUND]_vars

C2_Witness ==
    /\ resp.req.op \in {"updatePost", "deletePost"}
    /\ Authenticated(resp) /\ IdIsValid(resp)
    /\ OwnedByAnother(store, resp.req.userId, RequestedId(resp)) # {}
    /\ resp.outcome = NOT_FOUND

(* C3: what a caller observes from fetchPost, updatePost and deletePost is  *)
(* a function of the caller's own Posts: the response served on the store  *)
(* is a response the same handler gives on the store without the other     *)
(* callers' Posts (same outcome, errors and value), so an id owned by      *)
(* another caller answers as an id that matches no Post; and no response   *)
(* is ever FORBIDDEN.                                                      *)
OwnPosts(posts, userId) == {p \in posts : p.userId = userId}

Observed(results) ==
    {[outcome |-> r.outcome, errors |-> r.errors, value |-> r.value] : r \in results}

(* the results of the store call that answered r, had the table been posts *)
ResultsOn(posts, r) ==
    CASE r.req.op = "fetchPost" ->
            fetchPostResult(posts, r.req.webRequest, r.req.userId, r.req.id)
      [] r.req.op = "deletePost" ->
            deletePostResult(posts, r.req.webRequest, r.req.userId, r.req.id)
      [] r.req.op = "updatePost" /\ r.outcome \in {"post", "null"} ->
            updatePostReturnResult(posts, r.req.id)
      [] OTHER ->
            updatePostResult(posts, r.req.webRequest, r.req.userId, r.req.id,
                             r.req.data)

C3_OthersPostsUnobservable ==
    [][Serves({"fetchPost", "updatePost", "deletePost"}) =>
          /\ resp'.outcome # FORBIDDEN
          /\ [outcome |-> resp'.outcome, errors |-> resp'.errors,
              value |-> resp'.value]
                \in Observed(ResultsOn(OwnPosts(store, resp'.req.userId), resp'))]_vars

(* a caller is answered NOT_FOUND for an id that another caller owns, as for
   an id that matches no Post at all *)
C3_Witness ==
    /\ resp.req.op \in {"fetchPost", "updatePost", "deletePost"}
    /\ Authenticated(resp) /\ IdIsValid(resp)
    /\ resp.outcome = NOT_FOUND
    /\ OwnedByAnother(store, resp.req.userId, RequestedId(resp)) # {}
    /\ \E i \in IdInputs :
          /\ validateId(i, "postId") = <<>>
          /\ findUnique(store, SanitizeId(i)) = {}
          /\ \A r \in fetchPostResult(store, TRUE, resp.req.userId, i) :
                r.outcome = NOT_FOUND

(* C4: every Post in the store has a title whose trimmed length is between *)
(* 1 and 100, whatever titles createPost and updatePost were called with.   *)
C4_TitleWithinBounds ==
    \A p \in store :
       Length(Trim(p.title)) >= 1 /\ Length(Trim(p.title)) <= MaxTitleLength

(* C5: every Post in the store has a content whose trimmed length is       *)
(* between 0 and 5000, whatever contents createPost and updatePost were     *)
(* called with.                                                            *)
C5_ContentWithinBounds ==
    \A p \in store :
       Length(Trim(p.content)) >= 0 /\ Length(Trim(p.content)) <= MaxContentLength

(* an over-long content has just been refused while the store holds a Post
   whose content, longer than the limit before trimming, is at the limit *)
C5_Witness ==
    /\ resp.req.op \in {"createPost", "updatePost"}
    /\ resp.outcome = VALIDATION_FAILED
    /\ resp.errors = <<ValidationError("content", NotExceed(MaxContentLength))>>
    /\ \E p \in store : Length(p.content) = MaxContentLength

(* C6: createPost stores the new Post with the resolved identity as owner, *)
(* whatever fields the payload carries, and no step changes the owner of a *)
(* Post that is in the store.                                              *)
C6_OwnerSetOnceFromIdentity ==
    [][/\ (Serves({"createPost"}) /\ resp'.outcome = "post") =>
             \E p \in store' \ store :
                /\ store' = store \cup {p}
                /\ resp'.value = <<p>>
                /\ p.userId = resp'.req.userId
       /\ \A p \in store : \A q \in store' :
             q.id = p.id => q.userId = p.userId]_vars

(* a caller has created a Post with a payload that names another user *)
C6_Witness ==
    /\ resp.req.op = "createPost" /\ resp.outcome = "post"
    /\ resp.req.data.userId \in Users \ {resp.req.userId}
    /\ \E p \in store : resp.value = <<p>> /\ p.userId = resp.req.userId

(* C7: when the identity resolver returns no identity each of the five     *)
(* operations ends with UNAUTHORIZED, carrying no validation error and no  *)
(* value, and the store is as before, also when the input is malformed or  *)
(* the id matches no Post.                                                 *)
C7_NoIdentityFailsClosed ==
    [][(/\ resp = Idle /\ resp' # Idle
        /\ resp'.req.webRequest /\ NoIdentity(resp'.req.userId))
       => /\ resp'.outcome = UNAUTHORIZED
          /\ resp'.errors = <<>> /\ resp'.value = <<>>
          /\ store' = store /\ nextId' = nextId /\ pending' = pending]_vars

(* a write without identity and with a malformed payload ended UNAUTHORIZED *)
C7_Witness ==
    /\ resp.req.op \in {"createPost", "updatePost"}
    /\ resp.req.webRequest /\ NoIdentity(resp.req.userId)
    /\ ~DataIsValid(resp)
    /\ resp.outcome = UNAUTHORIZED

(* C8: an authenticated createPost or updatePost whose fields fail         *)
(* validation, and an authenticated fetchPost, updatePost or deletePost    *)
(* whose id fails validation, end with VALIDATION_FAILED and the store as  *)
(* before; updatePost(id, "", text) on a Post the caller owns fails with   *)
(* the one error title "is required".                                      *)
C8_ValidationFailureLeavesStore ==
    [][(/\ Serves({"fetchPost", "createPost", "updatePost", "deletePost"})
        /\ Authenticated(resp')
        /\ \/ resp'.req.op \in {"createPost", "updatePost"} /\ ~DataIsValid(resp')
           \/ resp'.req.op \in {"fetchPost", "updatePost", "deletePost"}
                 /\ ~IdIsValid(resp'))
       => /\ resp'.outcome = VALIDATION_FAILED
          /\ resp'.errors # <<>>
          /\ store' = store /\ nextId' = nextId /\ pending' = pending
          /\ (resp'.req.op = "updatePost" /\ resp'.req.data.title = StrVal(EmptyStr)
                 /\ resp'.req.data.content = StrVal(Run("n", 1)))
                => resp'.errors = <<ValidationError("title", IsRequired)>>]_vars

(* updatePost(id, "", text) on a Post the caller owns has just failed *)
C8_Witness ==
    /\ resp.req.op = "updatePost" /\ Authenticated(resp) /\ IdIsValid(resp)
    /\ resp.req.data.title = StrVal(EmptyStr)
    /\ resp.req.data.content = StrVal(Run("n", 1))
    /\ OwnedBy(store, resp.req.userId, RequestedId(resp)) # {}
    /\ resp.outcome = VALIDATION_FAILED
    /\ resp.errors = <<ValidationError("title", IsRequired)>>

(* C9: deletePost by the owner of a Post in the store ends with success    *)
(* and the Post is gone; an identifier that was generated and is no longer *)
(* in the store never comes back, fetchPost, updatePost and deletePost of  *)
(* it end with NOT_FOUND, and fetchPosts returns only Posts of the store.  *)
GeneratedIds == {PostId(k) : k \in 1..(nextId - 1)}

Gone == {id \in GeneratedIds : findUnique(store, id) = {}}

(* this step is the re-read of an updatePost that wrote in an earlier step *)
ReReads ==
    /\ resp'.req.op = "updatePost"
    /\ resp'.req \in pending
    /\ pending' = pending \ {resp'.req}

C9_DeleteIsPermanent ==
    [][/\ (/\ Serves({"deletePost"}) /\ Authenticated(resp') /\ IdIsValid(resp')
           /\ OwnedBy(store, resp'.req.userId, RequestedId(resp')) # {})
          => /\ resp'.outcome = "success"
             /\ findUnique(store', RequestedId(resp')) = {}
       /\ \A id \in Gone : findUnique(store', id) = {}
       /\ (/\ Serves({"fetchPost", "updatePost", "deletePost"})
           /\ Authenticated(resp') /\ IdIsValid(resp')
           /\ resp'.req.op = "updatePost" => DataIsValid(resp')
           /\ RequestedId(resp') \in Gone
           /\ ~ReReads)
          => resp'.outcome = NOT_FOUND
       /\ (Serves({"fetchPosts"}) /\ resp'.outcome = "posts")
          => \A i \in 1..Len(resp'.value) : resp'.value[i].id \notin Gone]_vars

(* a second deletePost of a deleted Post has just ended with NOT_FOUND *)
C9_Witness ==
    /\ resp.req.op = "deletePost" /\ Authenticated(resp) /\ IdIsValid(resp)
    /\ RequestedId(resp) \in Gone
    /\ resp.outcome = NOT_FOUND

(* C10: fetchPosts by an authenticated caller ends with exactly the Posts  *)
(* of the store that the caller owns, each once, the later created first;  *)
(* with no such Post the answer is the empty sequence, not NOT_FOUND.      *)
C10_ListIsOwnPostsNewestFirst ==
    (resp.req.op = "fetchPosts" /\ Authenticated(resp)) =>
        /\ resp.outcome = "posts"
        /\ {resp.value[i] : i \in 1..Len(resp.value)}
              = {p \in store : p.userId = resp.req.userId}
        /\ Len(resp.value) = Cardinality({p \in store : p.userId = resp.req.userId})
        /\ \A i, j \in 1..Len(resp.value) :
              i < j => resp.value[i].createdAt >= resp.value[j].createdAt

(* a caller is listed two Posts created at different times *)
C10_Witness ==
    /\ resp.req.op = "fetchPosts" /\ resp.outcome = "posts"
    /\ Len(resp.value) = 2
    /\ resp.value[1].createdAt > resp.value[2].createdAt

(* C11: a createPost that succeeds returns the Post it stored, owned by    *)
(* the caller, with the title and the content trimmed (an absent content   *)
(* is the empty string); a Post leaves the store or changes only by an     *)
(* updatePost or deletePost of its id by its owner; and fetchPost of the   *)
(* id of a stored Post returns that Post, as stored, to its owner and      *)
(* NOT_FOUND to every other caller.                                        *)
Trimmed(v) == IF IsString(v) THEN Trim(v.str) ELSE EmptyStr

C11_CreatedPostReadBack ==
    [][/\ (Serves({"createPost"}) /\ resp'.outcome = "post") =>
             \E p \in store' \ store :
                /\ resp'.value = <<p>>
                /\ p.userId = resp'.req.userId
                /\ p.title = Trimmed(resp'.req.data.title)
                /\ p.content = Trimmed(resp'.req.data.content)
       /\ \A p \in store \ store' :
             /\ Serves({"updatePost", "deletePost"})
             /\ Authenticated(resp') /\ IdIsValid(resp')
             /\ RequestedId(resp') = p.id /\ resp'.req.userId = p.userId
             /\ resp'.outcome \in {"pending", "success"}
       /\ (Serves({"fetchPost"}) /\ Authenticated(resp') /\ IdIsValid(resp')) =>
             \A p \in findUnique(store, RequestedId(resp')) :
                IF p.userId = resp'.req.userId
                THEN resp'.outcome = "post" /\ resp'.value = <<p>>
                ELSE resp'.outcome = NOT_FOUND /\ resp'.value = <<>>]_vars

(* the owner reads back a Post that was created from padded fields and has
   not been updated since *)
C11_Witness ==
    /\ resp.req.op = "fetchPost" /\ resp.outcome = "post"
    /\ \E p \in store :
          /\ resp.value = <<p>> /\ p.userId = resp.req.userId
          /\ p.title = Run("a", MaxTitleLength)
          /\ p.content = Run("c", MaxContentLength)
          /\ p.updatedAt = p.createdAt

(* C12: the id in the filter of every store call is the output of         *)
(* validateAndSanitizeId for the id of the request, the title and content  *)
(* in the data of every store call are the output of                       *)
(* validateAndSanitizePostData for the fields of the request, and a store  *)
(* call that uses an input is made only for an input that passed its       *)
(* validation.                                                             *)
C12_StoreCallsUseSanitizedInput ==
    \A i \in 1..Len(resp.calls) :
       LET call == resp.calls[i]
       IN /\ "id" \in DOMAIN call.where =>
                /\ IdIsValid(resp)
                /\ call.where.id = SanitizeId(resp.req.id)
          /\ "title" \in DOMAIN call.data =>
                /\ DataIsValid(resp)
                /\ call.data.title = SanitizePostData(resp.req.data).title
                /\ call.data.content = SanitizePostData(resp.req.data).content

(* C13: every store call a handler issues names the caller: its filter or  *)
(* the data it writes carries userId, equal to the resolved identity of    *)
(* the request; this includes the re-read of updatePost.                   *)
C13_StoreCallsScopedToCaller ==
    \A i \in 1..Len(resp.calls) :
       LET call == resp.calls[i]
       IN \/ "userId" \in DOMAIN call.where /\ call.where.userId = resp.req.userId
          \/ "userId" \in DOMAIN call.data /\ call.data.userId = resp.req.userId

(* C14: validateStringField with required: true, given undefined, null or  *)
(* the empty string, returns exactly one error, for the given field name,  *)
(* with the message "is required", whatever minLength and maxLength are.   *)
C14_RequiredAbsentValueOneError ==
    (/\ check.fn = "validateStringField"
     /\ check.args.options.required
     /\ check.args.value \in {Undefined, Null, StrVal(EmptyStr)})
    => check.errors = <<ValidationError(check.args.fieldName, IsRequired)>>

(* the empty string, required, with both length options given *)
C14_Witness ==
    /\ check.fn = "validateStringField"
    /\ check.args.options.required
    /\ check.args.options.minLength = {1}
    /\ check.args.options.maxLength = {MaxTitleLength}
    /\ check.args.value = StrVal(EmptyStr)
    /\ check.errors = <<ValidationError(check.args.fieldName, IsRequired)>>

(* C15: validateStringField with maxLength 100, given a string, returns    *)
(* the error "must not exceed 100 characters" exactly when the text        *)
(* between the leading and the trailing whitespace is longer than 100      *)
(* characters; whitespace at either end does not count.                    *)
Reports(errors, error) == \E i \in 1..Len(errors) : errors[i] = error

C15_MaxLengthCountsTrimmedLength ==
    (check.fn = "validateStringField"
        /\ check.args.options.maxLength = {MaxTitleLength}) =>
       LET exceeds == ValidationError(check.args.fieldName, NotExceed(MaxTitleLength))
       IN /\ \A l \in 0..MaxPad, r \in 0..MaxPad, b \in Bodies :
                check.args.value = StrVal(Spaces(l) \o b \o Spaces(r)) =>
                   (Reports(check.errors, exceeds) <=> Length(b) > MaxTitleLength)
          /\ \A n \in 0..MaxPad :
                check.args.value = StrVal(Spaces(n)) => ~Reports(check.errors, exceeds)

(* a string longer than 100 characters with 100 characters between its
   leading and trailing spaces is accepted *)
C15_Witness ==
    /\ check.fn = "validateStringField"
    /\ check.args.options.maxLength = {MaxTitleLength}
    /\ check.args.value = StrVal(Spaces(1) \o Run("a", MaxTitleLength) \o Spaces(1))
    /\ Length(check.args.value.str) > MaxTitleLength
    /\ check.errors = <<>>

(* C16: whenever validateAndSanitizePostData returns r, calling it with    *)
(* the title and the content of r returns r again.                         *)
C16_SanitizeIsIdempotent ==
    (check.fn = "validateAndSanitizePostData" /\ check.outcome = "return") =>
       LET r == check.value[1]
       IN validateAndSanitizePostData(Payload(StrVal(r.title), StrVal(r.content)))
             = Returned(r)

(* C17: validateAndSanitizePostData given the empty string as title and a  *)
(* content that is absent or a string of at most 5000 characters once      *)
(* trimmed throws a ValidationException with exactly one error: field      *)
(* "title", message "is required".                                         *)
ContentIsValid(content) ==
    \/ content \in {Undefined, Null, StrVal(EmptyStr)}
    \/ IsString(content) /\ Length(Trim(content.str)) <= MaxContentLength

C17_EmptyTitleIsRequired ==
    (/\ check.fn = "validateAndSanitizePostData"
     /\ HasFields(check.args.data)
     /\ check.args.data.title = StrVal(EmptyStr)
     /\ ContentIsValid(check.args.data.content))
    => /\ check.outcome = "ValidationException"
       /\ check.errors = <<ValidationError("title", IsRequired)>>
       /\ check.value = <<>>

(* the empty title with a content at the limit *)
C17_Witness ==
    /\ check.fn = "validateAndSanitizePostData"
    /\ HasFields(check.args.data)
    /\ check.args.data.title = StrVal(EmptyStr)
    /\ check.args.data.content = StrVal(Run("a", MaxContentLength))
    /\ check.outcome = "ValidationException"
    /\ check.errors = <<ValidationError("title", IsRequired)>>

(* C18: validateAndSanitizePostData given a title with more than 100       *)
(* characters between its leading and trailing whitespace and the empty    *)
(* string as content throws a ValidationException with exactly one error:  *)
(* field "title", message "must not exceed 100 characters".                *)
C18_LongTitleEmptyContent ==
    \A l \in 0..MaxPad, r \in 0..MaxPad, b \in Bodies :
       (/\ check.fn = "validateAndSanitizePostData"
        /\ HasFields(check.args.data)
        /\ Length(b) > MaxTitleLength
        /\ check.args.data.title = StrVal(Spaces(l) \o b \o Spaces(r))
        /\ check.args.data.content = StrVal(EmptyStr))
       => /\ check.outcome = "ValidationException"
          /\ check.errors = <<ValidationError("title", NotExceed(MaxTitleLength))>>
          /\ check.value = <<>>

(* a title of 101 characters with the empty content *)
C18_Witness ==
    /\ check.fn = "validateAndSanitizePostData"
    /\ HasFields(check.args.data)
    /\ check.args.data.title = StrVal(Run("a", MaxTitleLength + 1))
    /\ check.args.data.content = StrVal(EmptyStr)
    /\ check.outcome = "ValidationException"
    /\ Len(check.errors) = 1

(* C19: when the title and the content are both invalid, validatePostData  *)
(* returns errors for both fields in one sequence, every error of field    *)
(* "title" before every error of field "content", and the                  *)
(* ValidationException thrown by validateAndSanitizePostData carries that  *)
(* same sequence, not only its first error.                                *)
TitleIsValid(title) ==
    /\ IsString(title) /\ title # StrVal(EmptyStr)
    /\ Length(Trim(title.str)) <= MaxTitleLength

C19_ErrorsOfBothFieldsInOrder ==
    (/\ check.fn \in {"validatePostData", "validateAndSanitizePostData"}
     /\ HasFields(check.args.data)
     /\ ~TitleIsValid(check.args.data.title)
     /\ ~ContentIsValid(check.args.data.content))
    => /\ \E i \in 1..Len(check.errors) : check.errors[i].field = "title"
       /\ \E j \in 1..Len(check.errors) : check.errors[j].field = "content"
       /\ \A i, j \in 1..Len(check.errors) :
             (check.errors[i].field = "title" /\ check.errors[j].field = "content")
                => i < j
       /\ check.fn = "validateAndSanitizePostData" =>
             /\ check.outcome = "ValidationException"
             /\ check.errors = validatePostData(check.args.data)

(* the exception for a missing title and an over-long content carries both
   errors *)
C19_Witness ==
    /\ check.fn = "validateAndSanitizePostData"
    /\ check.outcome = "ValidationException"
    /\ check.errors = <<ValidationError("title", IsRequired),
                        ValidationError("content", NotExceed(MaxContentLength))>>

(* C20: validateId returns the one error "is required" for undefined,     *)
(* null and the empty string, the one error "must be a string" for a       *)
(* value that is no string, the one error "cannot be empty" for a string   *)
(* of whitespace only, and no error otherwise; validateAndSanitizeId       *)
(* throws with these errors when there is one, and otherwise returns the   *)
(* text between the leading and trailing whitespace of the id, which is    *)
(* not empty and neither starts nor ends with whitespace.                  *)
ExpectedIdErrors(id, fieldName) ==
    IF id \in {Undefined, Null, StrVal(EmptyStr)}
    THEN <<ValidationError(fieldName, IsRequired)>>
    ELSE IF id.type # "string" THEN <<ValidationError(fieldName, MustBeString)>>
    ELSE IF \E n \in 1..MaxPad : id = StrVal(Spaces(n))
    THEN <<ValidationError(fieldName, CannotBeEmpty)>>
    ELSE <<>>

C20_IdErrorsAndSanitizedId ==
    /\ check.fn = "validateId" =>
          check.errors = ExpectedIdErrors(check.args.id, check.args.fieldName)
    /\ check.fn = "validateAndSanitizeId" =>
          IF ExpectedIdErrors(check.args.id, check.args.fieldName) # <<>>
          THEN /\ check.outcome = "ValidationException"
               /\ check.errors = ExpectedIdErrors(check.args.id, check.args.fieldName)
               /\ check.value = <<>>
          ELSE /\ check.outcome = "return"
               /\ \E l \in 0..MaxPad, r \in 0..MaxPad, b \in Bodies :
                     /\ check.args.id = StrVal(Spaces(l) \o b \o Spaces(r))
                     /\ check.value = <<b>>
               /\ check.value[1] # EmptyStr
               /\ Head(check.value[1]).c \notin Whitespace
               /\ check.value[1][Len(check.value[1])].c \notin Whitespace

(* an id with a space on either side comes back without them *)
C20_Witness ==
    /\ check.fn = "validateAndSanitizeId"
    /\ check.args.id = StrVal(Spaces(1) \o Run("a", 1) \o Spaces(1))
    /\ check.outcome = "return"
    /\ check.value = <<Run("a", 1)>>

(* C21: validateStringField, validatePostData and validateId return an     *)
(* error sequence for every value they are called with (undefined, null,   *)
(* a string, a number, a boolean, an object) and never raise; a value that *)
(* is neither absent nor a string gives exactly the one error "must be a   *)
(* string"; validateAndSanitizePostData and validateAndSanitizeId end by    *)
(* returning or by throwing a ValidationException, and in no other way.    *)
C21_ValidationIsTotal ==
    /\ check.fn \in {"validateStringField", "validatePostData", "validateId"} =>
          check.outcome = "return"
    /\ check.fn \in {"validateAndSanitizePostData", "validateAndSanitizeId"} =>
          check.outcome \in {"return", "ValidationException"}
    /\ (check.fn = "validateStringField"
           /\ check.args.value \in {Number, Boolean, Object}) =>
          check.errors = <<ValidationError(check.args.fieldName, MustBeString)>>
    /\ (check.fn = "validateId" /\ check.args.id \in {Number, Boolean, Object}) =>
          check.errors = <<ValidationError(check.args.fieldName, MustBeString)>>

(* C22: an updatePost that passed the identity check and validation ends   *)
(* with NOT_FOUND or returns a Post: once updateMany matched a row the     *)
(* value returned from the re-read is the Post with the requested id and   *)
(* never null, also when a deletePost of that id is served between the     *)
(* updateMany and the re-read.                                             *)
C22_UpdateReturnsThePost ==
    (resp.req.op = "updatePost" /\ Authenticated(resp)
        /\ DataIsValid(resp) /\ IdIsValid(resp)) =>
       /\ resp.outcome \in {NOT_FOUND, "pending", "post"}
       /\ resp.outcome = "post" =>
             \E p \in store : resp.value = <<p>> /\ p.id = RequestedId(resp)

(* C23: an updatePost that returns a Post returns the Post with the        *)
(* requested id, owned by the caller, with the created timestamp it had,   *)
(* and with the title and content that this call's input sanitizes to,     *)
(* also when another updatePost of the same id by the same owner is served *)
(* between its updateMany and its re-read; and no step changes the created *)
(* timestamp of a stored Post.                                             *)
C23_UpdateReturnsItsOwnWrite ==
    [][/\ (Serves({"updatePost"}) /\ resp'.outcome = "post") =>
             \E p \in store :
                /\ resp'.value[1].id = p.id
                /\ p.id = RequestedId(resp')
                /\ resp'.value[1].userId = resp'.req.userId
                /\ resp'.value[1].createdAt = p.createdAt
                /\ resp'.value[1].title = SanitizePostData(resp'.req.data).title
                /\ resp'.value[1].content = SanitizePostData(resp'.req.data).content
       /\ \A p \in store : \A q \in store' :
             q.id = p.id => q.createdAt = p.createdAt]_vars

(* C24: every Post that updatePost returns has the requested id and is     *)
(* owned by the caller, whatever other callers' operations are served      *)
(* between its updateMany and its re-read by id alone: no step changes the *)
(* owner of a stored Post, and a created Post never gets an identifier     *)
(* that was generated before.                                              *)
C24_ReturnedPostOwnedByCaller ==
    [][/\ (Serves({"updatePost"}) /\ resp'.outcome = "post") =>
             /\ resp'.value[1].id = RequestedId(resp')
             /\ resp'.value[1].userId = resp'.req.userId
       /\ \A p \in store : \A q \in store' :
             q.id = p.id => q.userId = p.userId
       /\ \A q \in store' :
             findUnique(store, q.id) = {} => q.id \notin GeneratedIds]_vars

(* updatePost returns the caller's Post after another caller created a     *)
(* Post later than the updateMany wrote                                    *)
C24_Witness ==
    /\ resp.req.op = "updatePost" /\ resp.outcome = "post"
    /\ resp.value[1].userId = resp.req.userId
    /\ \E q \in store :
          q.userId # resp.req.userId /\ q.createdAt > resp.value[1].updatedAt

(* C25: every invocation of fetchPosts, fetchPost, createPost, updatePost  *)
(* and deletePost issues at most one store call: no invocation is ever in  *)
(* the state where one of its store calls has been served and another is   *)
(* still to come.                                                          *)
C25_SingleRoundTrip ==
    /\ pending = {}
    /\ resp.outcome # "pending"
    /\ Len(resp.calls) <= 1

(* C26: of the deletePost calls for one Post by its owner, in whatever     *)
(* order their store calls are served, the one served while the Post is    *)
(* in the store ends with success and removes exactly that Post, every one *)
(* served after it ends with NOT_FOUND and leaves the store as it is, and  *)
(* the Post stays absent.                                                  *)
C26_OneDeleteSucceeds ==
    [][/\ (Serves({"deletePost"}) /\ Authenticated(resp') /\ IdIsValid(resp')) =>
             LET mine == OwnedBy(store, resp'.req.userId, RequestedId(resp'))
             IN /\ resp'.outcome = IF mine # {} THEN "success" ELSE NOT_FOUND
                /\ store' = store \ mine
                /\ Cardinality(mine) <= 1
       /\ \A id \in Gone : findUnique(store', id) = {}]_vars

(* the one Post ever created was deleted by its owner, and a deletePost   *)
(* of its id served after that has ended with NOT_FOUND                    *)
C26_Witness ==
    /\ resp.req.op = "deletePost" /\ Authenticated(resp) /\ IdIsValid(resp)
    /\ resp.outcome = NOT_FOUND
    /\ nextId = 2 /\ store = {}
    /\ RequestedId(resp) = PostId(1)

(* C27: the updateMany of an updatePost served after the deletePost of the *)
(* same Post matches no row: the updatePost ends with NOT_FOUND, issues no *)
(* re-read and leaves the store as it is; no store call of updatePost adds *)
(* or removes a Post, so the deleted Post stays absent.                    *)
C27_UpdateAfterDeleteIsNotFound ==
    [][/\ (/\ Serves({"updatePost"}) /\ ~ReReads
           /\ Authenticated(resp') /\ DataIsValid(resp') /\ IdIsValid(resp')
           /\ RequestedId(resp') \in Gone)
          => /\ resp'.outcome = NOT_FOUND
             /\ store' = store /\ pending' = pending
       /\ Serves({"updatePost"}) => {q.id : q \in store'} = {p.id : p \in store}
       /\ \A id \in Gone : findUnique(store', id) = {}]_vars

(* an updatePost with valid input for the id of a deleted Post has ended   *)
(* with NOT_FOUND while the Post is absent                                 *)
C27_Witness ==
    /\ resp.req.op = "updatePost" /\ Authenticated(resp)
    /\ DataIsValid(resp) /\ IdIsValid(resp)
    /\ RequestedId(resp) \in Gone
    /\ resp.outcome = NOT_FOUND
    /\ findUnique(store, RequestedId(resp)) = {}

(* C28: the store changes only in these ways: a createPost that succeeds   *)
(* adds one Post with an identifier never generated before and leaves the  *)
(* others as they are, a createPost that fails adds none; updatePost keeps *)
(* the set of identifiers and changes at most the title, content and       *)
(* updated timestamp of the Post with the requested id owned by the        *)
(* caller; deletePost removes at most that Post and changes no other;      *)
(* fetchPosts, fetchPost and every other step leave the store as it is.    *)
C28_StoreChangesOnlyAsStated ==
    [][/\ Serves({"createPost"}) =>
             IF resp'.outcome = "post"
             THEN \E p \in store' \ store :
                     /\ store' = store \cup {p}
                     /\ p.id \notin GeneratedIds
                     /\ findUnique(store, p.id) = {}
             ELSE store' = store
       /\ Serves({"updatePost"}) =>
             /\ Cardinality(store') = Cardinality(store)
             /\ \A p \in store :
                   \/ p \in store'
                   \/ /\ p.id = RequestedId(resp') /\ p.userId = resp'.req.userId
                      /\ \E q \in store' :
                            /\ q.id = p.id /\ q.userId = p.userId
                            /\ q.createdAt = p.createdAt
       /\ Serves({"deletePost"}) =>
             /\ store' \subseteq store
             /\ Cardinality(store \ store') <= 1
             /\ \A p \in store \ store' :
                   p.id = RequestedId(resp') /\ p.userId = resp'.req.userId
       /\ ~Serves({"createPost", "updatePost", "deletePost"}) => store' = store]_vars

(* an updatePost has changed one of two stored Posts *)
C28_Witness ==
    /\ resp.req.op = "updatePost" /\ resp.outcome = "pending"
    /\ \E p \in store, q \in store :
          /\ p.id = RequestedId(resp) /\ p.updatedAt > p.createdAt
          /\ q.id # p.id /\ q.updatedAt = q.createdAt

(* C29: every invocation takes its steps in the order request check,       *)
(* identity check, validation of its input, store call: without a request  *)
(* it ends with NO_REQUEST whatever the identity and the input are,        *)
(* without an identity with UNAUTHORIZED whatever the input is, with an    *)
(* input that fails validation with VALIDATION_FAILED, and in these three  *)
(* cases it issues no store call and leaves the store as it is; otherwise  *)
(* it issues its store call and ends with NOT_FOUND or with its result     *)
(* (for updatePost after the re-read, its second store call, whose result  *)
(* is what it returns). Validation errors come with VALIDATION_FAILED and  *)
(* with no other outcome.                                                  *)
InputIsValid(r) ==
    /\ r.req.op \in {"fetchPost", "updatePost", "deletePost"} => IdIsValid(r)
    /\ r.req.op \in {"createPost", "updatePost"} => DataIsValid(r)

====
